---------------------------- MODULE Spec2Model ----------------------------
(***************************************************************************)
(* State-machine model of the DataDash back end: the three tables          *)
(* (projects, investment_schemes, admin_credentials) and the write         *)
(* handlers of ProjectService, InvestmentSchemeService and AdminService,   *)
(* together with the route handlers that map their outcomes to HTTP       *)
(* status codes.                                                           *)
(*                                                                         *)
(* A nullable column or an optional request field is None (absent, SQL     *)
(* NULL, Python None) or Some(v).  Plain text columns that take part in no *)
(* rule (title, location, description, status, ...) are represented by     *)
(* `title`; dates are day numbers; amounts are whole numbers.              *)
(***************************************************************************)
EXTENDS Integers, FiniteSets, Sequences, TLC

VARIABLES projects, schemes, admins, admin_seq, inflight, now, last

vars == <<projects, schemes, admins, admin_seq, inflight, now, last>>

---------------------------------------------------------------------------
(* Bounds of the model *)

MaxProjects == 2
MaxSchemes == 2
MaxAdmins == 2
MaxUnits == 2
MaxTime == 4
MaxDay == 2
MaxAmount == 1
\* rows of the table a focused specification exercises with every request
MaxFocusRows == 1
\* fields one scheme update supplies
MaxSupplied == 2
\* admin calls that have read the table and not yet written to it
MaxInflight == 2
\* page numbers and page sizes of the list routes
MaxPage == 3
MaxLimit == 2
\* row counts for which the page arithmetic is evaluated
MaxTotal == 6

---------------------------------------------------------------------------
(* Optional values *)

None == << >>
Some(v) == <<v>>
Opt(S) == {None} \cup {Some(v) : v \in S}

\* `request.x if request.x is not None else current`
Effective(x, current) == IF x # None THEN x[1] ELSE current

---------------------------------------------------------------------------
(* Handlers and responses *)

(* What one run of a handler comes to: the status and detail of the        *)
(* response, the entity returned, and the row it writes (None when it      *)
(* executes no INSERT or UPDATE, or the statement fails and rolls back).   *)
Result(status, detail, data, write) ==
    [status |-> status, detail |-> detail, data |-> data, write |-> write]

(* The response to the last request handled, and whether a write was       *)
(* committed for it.                                                       *)
Outcome(op, id, r) ==
    [op |-> op, id |-> id, status |-> r.status, detail |-> r.detail,
     data |-> r.data, wrote |-> r.write # None]

---------------------------------------------------------------------------
(* CURRENT_TIMESTAMP: every committed write happens at a later time than   *)
(* the one before it; `now` is the time of the latest commit.              *)

Commit == now < MaxTime /\ now' = now + 1

---------------------------------------------------------------------------
(* JSON-valued columns.  A value is a list or an object with its items;    *)
(* its text is the sequence of tokens json.dumps writes, which the JSONB   *)
(* column keeps and psycopg parses again when the row is read.             *)

JsonLists == {[kind |-> "list", items |-> << >>], [kind |-> "list", items |-> <<"a">>]}
JsonObjects == {[kind |-> "object", items |-> << >>], [kind |-> "object", items |-> <<"k">>]}

json_dumps(v) ==
    IF v.kind = "list" THEN <<"[">> \o v.items \o <<"]">>
    ELSE <<"{">> \o v.items \o <<"}">>

json_loads(text) ==
    [kind |-> IF Head(text) = "[" THEN "list" ELSE "object",
     items |-> SubSeq(text, 2, Len(text) - 1)]

\* `json.dumps(x) if x else None`, x an optional list or dict: None, the empty
\* list and the empty dict are false
json_param(x) ==
    IF x # None /\ x[1].items # << >> THEN Some(json_dumps(x[1])) ELSE None

\* a JSONB column as psycopg returns it
json_column(col) == IF col = None THEN None ELSE Some(json_loads(col[1]))

---------------------------------------------------------------------------
(* projects *)

ProjectStatus == {"available", "sold_out", "coming_soon"}

PropertyType == {"commercial", "residential", "plot", "land", "mixed_use"}

ProjectIds == 1..MaxProjects

\* CHECK constraints of the projects table
projects_checks(row) ==
    /\ row.status \in ProjectStatus
    /\ row.property_type \in PropertyType
    /\ row.total_units > 0
    /\ row.available_units >= 0
    /\ row.sold_units >= 0
    /\ row.reserved_units >= 0

\* field validators and model validator of CreateProjectRequest
CreateProjectRequest_validate(r) ==
    /\ r.total_units > 0
    /\ r.available_units >= 0
    /\ r.sold_units >= 0
    /\ r.reserved_units >= 0
    /\ ~(r.property_type \in {"plot", "land"} /\ r.has_rental_income)
    /\ r.total_units = r.available_units + r.sold_units + r.reserved_units

\* field validators of UpdateProjectRequest
UpdateProjectRequest_validate(r) ==
    /\ r.total_units # None => r.total_units[1] > 0
    /\ r.available_units # None => r.available_units[1] >= 0
    /\ r.sold_units # None => r.sold_units[1] >= 0
    /\ r.reserved_units # None => r.reserved_units[1] >= 0

\* the rental-income test of create_project
create_project_rental_error(r) ==
    r.property_type \in {"plot", "land"} /\ r.has_rental_income

\* the unit-sum test of create_project
create_project_units_error(r) ==
    r.total_units # r.available_units + r.sold_units + r.reserved_units

\* the row the INSERT statement of create_project writes
create_project_row(req) ==
    [title |-> req.title,
     status |-> req.status,
     property_type |-> req.property_type,
     has_rental_income |-> req.has_rental_income,
     pricing_details |-> json_param(req.pricing_details),
     total_units |-> req.total_units,
     available_units |-> req.available_units,
     sold_units |-> req.sold_units,
     reserved_units |-> req.reserved_units,
     amenities |-> json_param(req.amenities),
     is_active |-> TRUE,
     created_at |-> now + 1,
     updated_at |-> now + 1]

\* ProjectService._row_to_project_data
row_to_project_data(row) ==
    [row EXCEPT !.pricing_details = json_column(row.pricing_details),
                !.amenities = json_column(row.amenities)]

\* ProjectService.create_project under the route handler's status mapping
create_project_result(req) ==
    LET row == create_project_row(req)
    IN  IF create_project_units_error(req) THEN Result(400, "units", None, None)
        ELSE IF create_project_rental_error(req) THEN Result(400, "rental", None, None)
        ELSE IF ~projects_checks(row) THEN Result(500, "storage", None, None)
        ELSE Result(200, "", Some(row_to_project_data(row)), Some(row))

\* POST /projects/
create_project(req) ==
    /\ Cardinality(DOMAIN projects) < MaxProjects
    /\ LET id == Cardinality(DOMAIN projects) + 1
           r == create_project_result(req)
       IN  IF r.write # None
           THEN /\ Commit
                /\ projects' = projects @@ (id :> r.write[1])
                /\ last' = Outcome("create_project", id, r)
           ELSE /\ last' = Outcome("create_project", 0, r)
                /\ UNCHANGED <<projects, now>>
    /\ UNCHANGED <<schemes, admins, admin_seq, inflight>>

\* the rental-income test of update_project: made only when has_rental_income
\* is supplied, and on the request's own property_type
update_project_rental_error(req) ==
    /\ req.has_rental_income # None
    /\ req.property_type # None
    /\ req.property_type[1] \in {"plot", "land"}
    /\ req.has_rental_income[1]

update_project_units_supplied(req) ==
    \/ req.total_units # None
    \/ req.available_units # None
    \/ req.sold_units # None
    \/ req.reserved_units # None

\* update_project testing the sum only when the request carries all four counts
update_project_units_error_all_four(req, current) ==
    /\ req.total_units # None /\ req.available_units # None
    /\ req.sold_units # None /\ req.reserved_units # None
    /\ req.total_units[1] #
          req.available_units[1] + req.sold_units[1] + req.reserved_units[1]

\* the unit-sum test of update_project, on the effective values
update_project_units_error(req, current) ==
    /\ update_project_units_supplied(req)
    /\ Effective(req.total_units, current.total_units) #
          Effective(req.available_units, current.available_units)
        + Effective(req.sold_units, current.sold_units)
        + Effective(req.reserved_units, current.reserved_units)

\* `if not update_fields` of update_project
update_project_no_fields(req) ==
    /\ req.title = None
    /\ req.status = None
    /\ req.property_type = None
    /\ req.has_rental_income = None
    /\ req.pricing_details = None
    /\ req.amenities = None
    /\ ~update_project_units_supplied(req)
    /\ req.is_active = None

\* update_project writing the column default for an omitted is_active
update_project_row_default_active(req, current) ==
    [title |-> Effective(req.title, current.title),
     status |-> Effective(req.status, current.status),
     property_type |-> Effective(req.property_type, current.property_type),
     has_rental_income |-> Effective(req.has_rental_income, current.has_rental_income),
     pricing_details |-> IF req.pricing_details # None
                         THEN json_param(req.pricing_details)
                         ELSE current.pricing_details,
     total_units |-> Effective(req.total_units, current.total_units),
     available_units |-> Effective(req.available_units, current.available_units),
     sold_units |-> Effective(req.sold_units, current.sold_units),
     reserved_units |-> Effective(req.reserved_units, current.reserved_units),
     amenities |-> IF req.amenities # None
                   THEN json_param(req.amenities)
                   ELSE current.amenities,
     is_active |-> Effective(req.is_active, TRUE),
     created_at |-> current.created_at,
     updated_at |-> now + 1]

\* the row the UPDATE statement of update_project writes
update_project_row(req, current) ==
    [title |-> Effective(req.title, current.title),
     status |-> Effective(req.status, current.status),
     property_type |-> Effective(req.property_type, current.property_type),
     has_rental_income |-> Effective(req.has_rental_income, current.has_rental_income),
     pricing_details |-> IF req.pricing_details # None
                         THEN json_param(req.pricing_details)
                         ELSE current.pricing_details,
     total_units |-> Effective(req.total_units, current.total_units),
     available_units |-> Effective(req.available_units, current.available_units),
     sold_units |-> Effective(req.sold_units, current.sold_units),
     reserved_units |-> Effective(req.reserved_units, current.reserved_units),
     amenities |-> IF req.amenities # None
                   THEN json_param(req.amenities)
                   ELSE current.amenities,
     is_active |-> Effective(req.is_active, current.is_active),
     created_at |-> current.created_at,
     updated_at |-> now + 1]

\* ProjectService.update_project under the route handler's status mapping
update_project_result(project_id, req) ==
    IF project_id \notin DOMAIN projects THEN Result(404, "not found", None, None)
    ELSE LET current == projects[project_id]
             row == update_project_row(req, current)
         IN  IF update_project_rental_error(req) THEN Result(400, "rental", None, None)
             ELSE IF update_project_units_error(req, current)
             THEN Result(400, "units", None, None)
             ELSE IF update_project_no_fields(req)
             THEN Result(200, "", Some(row_to_project_data(current)), None)
             ELSE IF ~projects_checks(row) THEN Result(500, "storage", None, None)
             ELSE Result(200, "", Some(row_to_project_data(row)), Some(row))

\* PUT /projects/{project_id}
update_project(project_id, req) ==
    /\ LET r == update_project_result(project_id, req)
       IN  /\ last' = Outcome("update_project", project_id, r)
           /\ IF r.write # None
              THEN /\ Commit
                   /\ projects' = [projects EXCEPT ![project_id] = r.write[1]]
              ELSE UNCHANGED <<projects, now>>
    /\ UNCHANGED <<schemes, admins, admin_seq, inflight>>

---------------------------------------------------------------------------
(* update_project calls that overlap: a call reads the unit counts and     *)
(* tests the unit sum in one step and executes its UPDATE in a later one,  *)
(* so other calls may commit in between.                                   *)

\* the unit counts of a row, as the SELECT of update_project returns them
unit_counts(row) ==
    [total_units |-> row.total_units, available_units |-> row.available_units,
     sold_units |-> row.sold_units, reserved_units |-> row.reserved_units]

\* the existence check, the SELECT of the current unit counts and the tests
\* of update_project, for a request that passes them and supplies a field
update_project_select(project_id, req) ==
    /\ Cardinality(inflight) < MaxInflight
    /\ project_id \in DOMAIN projects
    /\ ~update_project_rental_error(req)
    /\ ~update_project_units_error(req, projects[project_id])
    /\ ~update_project_no_fields(req)
    /\ inflight' = inflight \cup
          {[op |-> "update_project", id |-> project_id, req |-> req,
            read |-> unit_counts(projects[project_id])]}
    /\ UNCHANGED <<projects, schemes, admins, admin_seq, now, last>>

\* an UPDATE that tests the unit sum again on the row it changes
update_project_where_units(req, current) == ~update_project_units_error(req, current)

\* the WHERE clause of the UPDATE of update_project beyond `id = %s`: none
update_project_where(req, current) == TRUE

\* the UPDATE and commit of an update_project call that passed its tests: the
\* statement sets the supplied columns on the row as it is now
update_project_update(call) ==
    /\ call \in inflight
    /\ call.op = "update_project"
    /\ inflight' = inflight \ {call}
    /\ LET current == projects[call.id]
           row == update_project_row(call.req, current)
       IN  IF ~update_project_where(call.req, current)
           THEN /\ last' = Outcome("update_project", call.id,
                                   Result(500, "no row returned", None, None))
                /\ UNCHANGED <<projects, now>>
           ELSE IF ~projects_checks(row)
           THEN /\ last' = Outcome("update_project", call.id,
                                   Result(500, "storage", None, None))
                /\ UNCHANGED <<projects, now>>
           ELSE /\ Commit
                /\ projects' = [projects EXCEPT ![call.id] = row]
                /\ last' = Outcome("update_project", call.id,
                              Result(200, "", Some(row_to_project_data(row)), Some(row)))
    /\ UNCHANGED <<schemes, admins, admin_seq>>

---------------------------------------------------------------------------
(* investment_schemes *)

SchemeType == {"single_payment", "installment"}

SchemeIds == 1..MaxSchemes

\* CHECK constraints of the investment_schemes table (a CHECK on NULL passes)
investment_schemes_checks(row) ==
    /\ row.scheme_type \in SchemeType
    /\ row.area_sqft > 0
    /\ row.booking_advance # None => row.booking_advance[1] >= 0
    /\ row.balance_payment_days # None => row.balance_payment_days[1] > 0
    /\ row.total_installments # None => row.total_installments[1] > 0
    /\ row.monthly_installment_amount # None => row.monthly_installment_amount[1] > 0
    /\ row.rental_start_month # None => row.rental_start_month[1] > 0
    /\ row.end_date = None \/ row.end_date[1] > row.start_date

\* field validators and validate_scheme_fields of CreateInvestmentSchemeRequest
CreateInvestmentSchemeRequest_validate(r) ==
    /\ r.area_sqft > 0
    /\ r.booking_advance # None => r.booking_advance[1] >= 0
    /\ r.balance_payment_days # None => r.balance_payment_days[1] > 0
    /\ r.total_installments # None => r.total_installments[1] > 0
    /\ r.monthly_installment_amount # None => r.monthly_installment_amount[1] > 0
    /\ r.rental_start_month # None => r.rental_start_month[1] > 0
    /\ r.scheme_type = "single_payment" =>
          r.total_installments = None /\ r.monthly_installment_amount = None
    /\ r.scheme_type = "installment" =>
          /\ r.total_installments # None /\ r.total_installments[1] > 0
          /\ r.monthly_installment_amount # None /\ r.monthly_installment_amount[1] > 0
    /\ r.end_date # None => r.end_date[1] > r.start_date

\* field validators and validate_date_range of UpdateInvestmentSchemeRequest
UpdateInvestmentSchemeRequest_validate(r) ==
    /\ r.area_sqft # None => r.area_sqft[1] > 0
    /\ r.booking_advance # None => r.booking_advance[1] >= 0
    /\ r.balance_payment_days # None => r.balance_payment_days[1] > 0
    /\ r.total_installments # None => r.total_installments[1] > 0
    /\ r.monthly_installment_amount # None => r.monthly_installment_amount[1] > 0
    /\ r.rental_start_month # None => r.rental_start_month[1] > 0
    /\ ~(r.start_date # None /\ r.end_date # None /\ r.end_date[1] <= r.start_date[1])

\* InvestmentSchemeService._row_to_scheme_data: `float(x) if x else None`
\* turns a stored amount of 0 into None
row_to_scheme_data(row) ==
    [row EXCEPT
       !.booking_advance =
          IF row.booking_advance # None /\ row.booking_advance[1] # 0
          THEN row.booking_advance ELSE None,
       !.monthly_installment_amount =
          IF row.monthly_installment_amount # None /\ row.monthly_installment_amount[1] # 0
          THEN row.monthly_installment_amount ELSE None]

\* the project lookup without `AND is_active = true`
active_project_any(project_id) ==
    IF project_id \in DOMAIN projects THEN Some(projects[project_id]) ELSE None

\* SELECT ... FROM projects WHERE id = %s AND is_active = true
active_project(project_id) ==
    IF project_id \in DOMAIN projects /\ projects[project_id].is_active
    THEN Some(projects[project_id])
    ELSE None

\* the rental_start_month test made on the property type instead
rental_start_month_error_by_type(req, project) ==
    req.rental_start_month # None /\ project.property_type \in {"plot", "land"}

\* the rental_start_month test of create_scheme and update_scheme
rental_start_month_error(req, project) ==
    req.rental_start_month # None /\ ~project.has_rental_income

\* the scheme-type tests of create_scheme; "" when all pass
create_scheme_type_error(req) ==
    IF req.scheme_type = "single_payment"
    THEN IF req.total_installments # None THEN "single total_installments"
         ELSE IF req.monthly_installment_amount # None THEN "single monthly_installment_amount"
         ELSE ""
    ELSE IF req.scheme_type = "installment"
    THEN IF req.total_installments = None \/ req.total_installments[1] <= 0
         THEN "installment total_installments"
         ELSE IF req.monthly_installment_amount = None
                 \/ req.monthly_installment_amount[1] <= 0
         THEN "installment monthly_installment_amount"
         ELSE IF req.balance_payment_days # None THEN "installment balance_payment_days"
         ELSE ""
    ELSE ""

\* the row the INSERT statement of create_scheme writes
create_scheme_row(req) ==
    [project_id |-> req.project_id,
     scheme_type |-> req.scheme_type,
     area_sqft |-> req.area_sqft,
     booking_advance |-> req.booking_advance,
     balance_payment_days |-> req.balance_payment_days,
     total_installments |-> req.total_installments,
     monthly_installment_amount |-> req.monthly_installment_amount,
     rental_start_month |-> req.rental_start_month,
     start_date |-> req.start_date,
     end_date |-> req.end_date,
     is_active |-> req.is_active,
     updated_at |-> now + 1]

\* InvestmentSchemeService.create_scheme under the route handler's status mapping
create_scheme_result(req) ==
    LET project == active_project(req.project_id)
        row == create_scheme_row(req)
    IN  IF project = None THEN Result(400, "project", None, None)
        ELSE IF rental_start_month_error(req, project[1])
        THEN Result(400, "rental", None, None)
        ELSE IF create_scheme_type_error(req) # ""
        THEN Result(400, create_scheme_type_error(req), None, None)
        ELSE IF ~investment_schemes_checks(row) THEN Result(500, "storage", None, None)
        ELSE Result(200, "", Some(row_to_scheme_data(row)), Some(row))

\* POST /investment-schemes/
create_scheme(req) ==
    /\ Cardinality(DOMAIN schemes) < MaxSchemes
    /\ LET id == Cardinality(DOMAIN schemes) + 1
           r == create_scheme_result(req)
       IN  IF r.write # None
           THEN /\ Commit
                /\ schemes' = schemes @@ (id :> r.write[1])
                /\ last' = Outcome("create_scheme", id, r)
           ELSE /\ last' = Outcome("create_scheme", 0, r)
                /\ UNCHANGED <<schemes, now>>
    /\ UNCHANGED <<projects, admins, admin_seq, inflight>>

\* update_scheme appending updated_at before it tests update_fields
update_scheme_no_fields_never(req) == FALSE

\* `if not update_fields` of update_scheme
update_scheme_no_fields(req) ==
    /\ req.area_sqft = None
    /\ req.booking_advance = None
    /\ req.balance_payment_days = None
    /\ req.total_installments = None
    /\ req.monthly_installment_amount = None
    /\ req.rental_start_month = None
    /\ req.start_date = None
    /\ req.end_date = None
    /\ req.is_active = None

\* an UPDATE that assigned every optional column from the request, supplied or not
update_scheme_row_overwrite(req, current) ==
    [project_id |-> current.project_id,
     scheme_type |-> current.scheme_type,
     area_sqft |-> Effective(req.area_sqft, current.area_sqft),
     booking_advance |-> req.booking_advance,
     balance_payment_days |-> req.balance_payment_days,
     total_installments |-> req.total_installments,
     monthly_installment_amount |-> req.monthly_installment_amount,
     rental_start_month |-> req.rental_start_month,
     start_date |-> Effective(req.start_date, current.start_date),
     end_date |-> req.end_date,
     is_active |-> Effective(req.is_active, current.is_active),
     updated_at |-> now + 1]

\* the row the UPDATE statement of update_scheme writes
update_scheme_row(req, current) ==
    [project_id |-> current.project_id,
     scheme_type |-> current.scheme_type,
     area_sqft |-> Effective(req.area_sqft, current.area_sqft),
     booking_advance |->
        IF req.booking_advance # None THEN req.booking_advance ELSE current.booking_advance,
     balance_payment_days |->
        IF req.balance_payment_days # None THEN req.balance_payment_days
        ELSE current.balance_payment_days,
     total_installments |->
        IF req.total_installments # None THEN req.total_installments
        ELSE current.total_installments,
     monthly_installment_amount |->
        IF req.monthly_installment_amount # None THEN req.monthly_installment_amount
        ELSE current.monthly_installment_amount,
     rental_start_month |->
        IF req.rental_start_month # None THEN req.rental_start_month
        ELSE current.rental_start_month,
     start_date |-> Effective(req.start_date, current.start_date),
     end_date |-> IF req.end_date # None THEN req.end_date ELSE current.end_date,
     is_active |-> Effective(req.is_active, current.is_active),
     updated_at |-> now + 1]

\* InvestmentSchemeService.update_scheme under the route handler's status mapping
update_scheme_result(scheme_id, req) ==
    IF scheme_id \notin DOMAIN schemes THEN Result(404, "not found", None, None)
    ELSE LET current == schemes[scheme_id]
             project == active_project(current.project_id)
             row == update_scheme_row(req, current)
         IN  IF project = None THEN Result(400, "project", None, None)
             ELSE IF rental_start_month_error(req, project[1])
             THEN Result(400, "rental", None, None)
             ELSE IF update_scheme_no_fields(req)
             THEN Result(200, "", Some(row_to_scheme_data(current)), None)
             ELSE IF ~investment_schemes_checks(row) THEN Result(500, "storage", None, None)
             ELSE Result(200, "", Some(row_to_scheme_data(row)), Some(row))

\* PUT /investment-schemes/{scheme_id}
update_scheme(scheme_id, req) ==
    /\ LET r == update_scheme_result(scheme_id, req)
       IN  /\ last' = Outcome("update_scheme", scheme_id, r)
           /\ IF r.write # None
              THEN /\ Commit
                   /\ schemes' = [schemes EXCEPT ![scheme_id] = r.write[1]]
              ELSE UNCHANGED <<schemes, now>>
    /\ UNCHANGED <<projects, admins, admin_seq, inflight>>

---------------------------------------------------------------------------
(* admin_credentials *)

AdminIds == 1..MaxAdmins

Salts == {"s1", "s2"}

\* AdminService._hash_password with the salt bcrypt.gensalt() drew
hash_password(password, salt) == <<"bcrypt", salt, password>>

\* a check that accepts any password
verify_password_any(password, hashed) == TRUE

\* AdminService._verify_password
verify_password(password, hashed) == hashed = hash_password(password, hashed[2])

\* SELECT id FROM admin_credentials WHERE email = %s
admin_with_email(email) == {a \in DOMAIN admins : admins[a].email = email}

\* Python truth of an optional string: `if name:`
Truthy(x) == x # None /\ x[1] # ""

\* AdminData as the service returns it
AdminData(row) == [name |-> row.name, email |-> row.email, updated_at |-> row.updated_at]

\* AdminService.create_admin(name, email, password); a ValueError counts as 400
create_admin_result(name, email, password, salt) ==
    LET row == [name |-> name, email |-> email,
                password |-> hash_password(password, salt),
                updated_at |-> now + 1]
    IN  IF admin_with_email(email) # {} THEN Result(400, "email exists", None, None)
        ELSE Result(200, "", Some(AdminData(row)), Some(row))

AdminService_create_admin(name, email, password, salt) ==
    /\ admin_seq < MaxAdmins
    /\ LET id == admin_seq + 1
           r == create_admin_result(name, email, password, salt)
       IN  IF r.write # None
           THEN /\ Commit
                /\ admins' = admins @@ (id :> r.write[1])
                /\ admin_seq' = id
                /\ last' = Outcome("create_admin", id, r)
           ELSE /\ last' = Outcome("create_admin", 0, r)
                /\ UNCHANGED <<admins, admin_seq, now>>
    /\ UNCHANGED <<projects, schemes, inflight>>

\* `if not update_fields` of update_admin
update_admin_no_fields(name, email, password) ==
    ~Truthy(name) /\ ~Truthy(email) /\ ~Truthy(password)

\* the row the UPDATE statement of update_admin writes
update_admin_row(current, name, email, password, salt) ==
    [name |-> IF Truthy(name) THEN name[1] ELSE current.name,
     email |-> IF Truthy(email) THEN email[1] ELSE current.email,
     password |-> IF Truthy(password) THEN hash_password(password[1], salt)
                  ELSE current.password,
     updated_at |-> now + 1]

\* update_admin committing the name before it rejects the email
update_admin_result_name_first(admin_id, name, email, password, salt) ==
    IF admin_id \notin DOMAIN admins THEN Result(404, "not found", None, None)
    ELSE LET current == admins[admin_id]
             row == update_admin_row(current, name, email, password, salt)
         IN  IF Truthy(email) /\ admin_with_email(email[1]) \ {admin_id} # {}
             THEN Result(400, "email exists", None,
                         IF Truthy(name)
                         THEN Some([current EXCEPT !.name = name[1], !.updated_at = now + 1])
                         ELSE None)
             ELSE IF update_admin_no_fields(name, email, password)
             THEN Result(200, "", Some(AdminData(current)), None)
             ELSE Result(200, "", Some(AdminData(row)), Some(row))

\* AdminService.update_admin(admin_id, name, email, password); a ValueError
\* counts as 400 and a None result as 404
update_admin_result(admin_id, name, email, password, salt) ==
    IF admin_id \notin DOMAIN admins THEN Result(404, "not found", None, None)
    ELSE LET current == admins[admin_id]
             row == update_admin_row(current, name, email, password, salt)
         IN  IF Truthy(email) /\ admin_with_email(email[1]) \ {admin_id} # {}
             THEN Result(400, "email exists", None, None)
             ELSE IF update_admin_no_fields(name, email, password)
             THEN Result(200, "", Some(AdminData(current)), None)
             ELSE Result(200, "", Some(AdminData(row)), Some(row))

AdminService_update_admin(admin_id, name, email, password, salt) ==
    /\ LET r == update_admin_result(admin_id, name, email, password, salt)
       IN  /\ last' = Outcome("update_admin", admin_id, r)
           /\ IF r.write # None
              THEN /\ Commit
                   /\ admins' = [admins EXCEPT ![admin_id] = r.write[1]]
              ELSE UNCHANGED <<admins, now>>
    /\ UNCHANGED <<projects, schemes, admin_seq, inflight>>

---------------------------------------------------------------------------
(* admin calls that overlap: each call reads the table (the email SELECT)  *)
(* in one step and executes its INSERT or UPDATE in a later one, so other  *)
(* calls may read and write in between.                                    *)

\* the table without its UNIQUE constraint on email
admin_credentials_unique_absent(email, admin_id) == TRUE

\* email VARCHAR(255) UNIQUE: no row but admin_id's holds the email
admin_credentials_unique(email, admin_id) ==
    \A a \in DOMAIN admins \ {admin_id} : admins[a].email # email

\* create_admin from its start to the end of its email test
AdminService_create_admin_select(name, email, password, salt) ==
    /\ Cardinality(inflight) < MaxInflight
    /\ admin_with_email(email) = {}
    /\ inflight' = inflight \cup
          {[op |-> "create_admin", id |-> 0, name |-> Some(name), email |-> Some(email),
            password |-> Some(hash_password(password, salt))]}
    /\ UNCHANGED <<projects, schemes, admins, admin_seq, now, last>>

\* the INSERT and commit of a create_admin call that passed its email test
AdminService_create_admin_insert(call) ==
    /\ call \in inflight
    /\ call.op = "create_admin"
    /\ admin_seq < MaxAdmins
    /\ inflight' = inflight \ {call}
    /\ LET id == admin_seq + 1
           row == [name |-> call.name[1], email |-> call.email[1],
                   password |-> call.password[1], updated_at |-> now + 1]
       IN  IF admin_credentials_unique(row.email, id)
           THEN /\ Commit
                /\ admins' = admins @@ (id :> row)
                /\ admin_seq' = id
                /\ last' = Outcome("create_admin", id,
                                   Result(200, "", Some(AdminData(row)), Some(row)))
           ELSE /\ last' = Outcome("create_admin", 0, Result(500, "storage", None, None))
                /\ UNCHANGED <<admins, admin_seq, now>>
    /\ UNCHANGED <<projects, schemes>>

\* update_admin from its start to the end of its email test, for a call that
\* goes on to its UPDATE
AdminService_update_admin_select(admin_id, name, email, password, salt) ==
    /\ Cardinality(inflight) < MaxInflight
    /\ admin_id \in DOMAIN admins
    /\ ~(Truthy(email) /\ admin_with_email(email[1]) \ {admin_id} # {})
    /\ ~update_admin_no_fields(name, email, password)
    /\ inflight' = inflight \cup
          {[op |-> "update_admin", id |-> admin_id,
            name |-> IF Truthy(name) THEN name ELSE None,
            email |-> IF Truthy(email) THEN email ELSE None,
            password |-> IF Truthy(password)
                         THEN Some(hash_password(password[1], salt)) ELSE None]}
    /\ UNCHANGED <<projects, schemes, admins, admin_seq, now, last>>

\* the UPDATE and commit of an update_admin call that passed its email test;
\* when the row is gone the statement returns no row and the call fails
AdminService_update_admin_update(call) ==
    /\ call \in inflight
    /\ call.op = "update_admin"
    /\ inflight' = inflight \ {call}
    /\ IF call.id \notin DOMAIN admins
       THEN /\ last' = Outcome("update_admin", call.id,
                               Result(500, "no row returned", None, None))
            /\ UNCHANGED <<admins, now>>
       ELSE LET current == admins[call.id]
                row == [name |-> Effective(call.name, current.name),
                        email |-> Effective(call.email, current.email),
                        password |-> Effective(call.password, current.password),
                        updated_at |-> now + 1]
            IN  IF admin_credentials_unique(row.email, call.id)
                THEN /\ Commit
                     /\ admins' = [admins EXCEPT ![call.id] = row]
                     /\ last' = Outcome("update_admin", call.id,
                                        Result(200, "", Some(AdminData(row)), Some(row)))
                ELSE /\ last' = Outcome("update_admin", call.id,
                                        Result(500, "storage", None, None))
                     /\ UNCHANGED <<admins, now>>
    /\ UNCHANGED <<projects, schemes, admin_seq>>

---------------------------------------------------------------------------
(* tokens and the admin routes *)

(* A bearer token: the admin_id of its payload, whether its signature      *)
(* verifies under JWT_SECRET, and whether its exp has passed.              *)
Tokens == [admin_id : AdminIds, signed : BOOLEAN, expired : BOOLEAN]

\* AdminService._generate_token
generate_token(admin_id) == [admin_id |-> admin_id, signed |-> TRUE, expired |-> FALSE]

\* the Authorization headers a client can send: none, a forged token, or a
\* token that login issued to an admin that existed
Credentials ==
    Opt({t \in Tokens : t.signed => t.admin_id <= admin_seq})

\* verify_token looking the admin up in admin_credentials
verify_token_stored(credentials) ==
    IF credentials = None THEN None
    ELSE IF ~credentials[1].signed \/ credentials[1].expired THEN None
    ELSE IF credentials[1].admin_id \notin DOMAIN admins THEN None
    ELSE Some(credentials[1].admin_id)

\* AuthService.verify_token: the admin_id of the payload, None for 401
verify_token(credentials) ==
    IF credentials = None THEN None
    ELSE IF ~credentials[1].signed \/ credentials[1].expired THEN None
    ELSE Some(credentials[1].admin_id)

\* AuthService.verify_admin_token of the project and scheme routes: the
\* admin_id of the payload, None when the request is refused; HTTPBearer()
\* refuses a request without credentials before the function runs
verify_admin_token(credentials) ==
    IF credentials = None THEN None
    ELSE IF ~credentials[1].signed \/ credentials[1].expired THEN None
    ELSE Some(credentials[1].admin_id)

\* the route create_project behind its token dependency
router_create_project_result(request, credentials) ==
    IF verify_admin_token(credentials) = None
    THEN Result(401, "invalid token", None, None)
    ELSE create_project_result(request)

\* POST /projects/ with an Authorization header
router_create_project(request, credentials) ==
    /\ Cardinality(DOMAIN projects) < MaxFocusRows
    /\ LET id == Cardinality(DOMAIN projects) + 1
           r == router_create_project_result(request, credentials)
       IN  IF r.write # None
           THEN /\ Commit
                /\ projects' = projects @@ (id :> r.write[1])
                /\ last' = Outcome("POST /projects/", id, r)
           ELSE /\ last' = Outcome("POST /projects/", 0, r)
                /\ UNCHANGED <<projects, now>>
    /\ UNCHANGED <<schemes, admins, admin_seq, inflight>>

\* SELECT COUNT(*) FROM admin_credentials
get_admin_count == Cardinality(DOMAIN admins)

\* AdminService.authenticate_admin under the status mapping of login
authenticate_admin_result(email, password) ==
    IF admin_with_email(email) = {} THEN Result(401, "invalid credentials", None, None)
    ELSE LET a == CHOOSE a \in admin_with_email(email) : TRUE
         IN  IF ~verify_password(password, admins[a].password)
             THEN Result(401, "invalid credentials", None, None)
             ELSE Result(200, "",
                         Some([token |-> generate_token(a),
                               admin |-> [id |-> a, name |-> admins[a].name,
                                          email |-> admins[a].email]]),
                         None)

\* POST /admin/login
login(email, password) ==
    /\ last' = Outcome("login", 0, authenticate_admin_result(email, password))
    /\ UNCHANGED <<projects, schemes, admins, admin_seq, inflight, now>>

\* create_admin taking the email for the name when the name is not given
AdminService_create_admin_call_two(args, salt) ==
    IF Len(args) = 2 THEN create_admin_result(args[1], args[1], args[2], salt)
    ELSE create_admin_result(args[1], args[2], args[3], salt)

\* Python binding the positional arguments of a call to the parameters
\* (name, email, password) of AdminService.create_admin: a TypeError, which
\* the route answers with 500, unless there are three
AdminService_create_admin_call(args, salt) ==
    IF Len(args) # 3 THEN Result(500, "TypeError", None, None)
    ELSE create_admin_result(args[1], args[2], args[3], salt)

\* the route handler create_admin
router_create_admin_result(request, credentials, salt) ==
    IF get_admin_count > 0 /\ credentials = None
    THEN Result(401, "authentication required", None, None)
    ELSE IF get_admin_count > 0 /\ verify_token(credentials) = None
    THEN Result(401, "invalid token", None, None)
    ELSE AdminService_create_admin_call(<<request.email, request.password>>, salt)

\* POST /admin/
router_create_admin(request, credentials, salt) ==
    /\ admin_seq < MaxAdmins
    /\ LET id == admin_seq + 1
           r == router_create_admin_result(request, credentials, salt)
       IN  IF r.write # None
           THEN /\ Commit
                /\ admins' = admins @@ (id :> r.write[1])
                /\ admin_seq' = id
                /\ last' = Outcome("POST /admin/", id, r)
           ELSE /\ last' = Outcome("POST /admin/", 0, r)
                /\ UNCHANGED <<admins, admin_seq, now>>
    /\ UNCHANGED <<projects, schemes, inflight>>

\* POST /admin/ from its start to the end of its admin_count test: a request
\* refused there is answered 401, any other goes on to call the service
router_create_admin_count(request, credentials) ==
    /\ Cardinality(inflight) < MaxInflight
    /\ IF get_admin_count > 0 /\ verify_token(credentials) = None
       THEN /\ last' = Outcome("POST /admin/", 0,
                               Result(401, "authentication required", None, None))
            /\ UNCHANGED inflight
       ELSE /\ inflight' = inflight \cup
                  {[op |-> "POST /admin/", id |-> 0, request |-> request,
                    credentials |-> credentials]}
            /\ UNCHANGED last
    /\ UNCHANGED <<projects, schemes, admins, admin_seq, now>>

\* the service call of a POST /admin/ request that passed the admin_count
\* test, made after other requests may have been handled
router_create_admin_call(call, salt) ==
    /\ call \in inflight
    /\ call.op = "POST /admin/"
    /\ admin_seq < MaxAdmins
    /\ inflight' = inflight \ {call}
    /\ LET id == admin_seq + 1
           r == AdminService_create_admin_call(
                    <<call.request.email, call.request.password>>, salt)
       IN  IF r.write # None
           THEN /\ Commit
                /\ admins' = admins @@ (id :> r.write[1])
                /\ admin_seq' = id
                /\ last' = Outcome("POST /admin/", id, r)
           ELSE /\ last' = Outcome("POST /admin/", 0, r)
                /\ UNCHANGED <<admins, admin_seq, now>>
    /\ UNCHANGED <<projects, schemes>>

\* delete_admin without the test for the caller's own id
router_delete_admin_result_no_self_test(target_admin_id, credentials) ==
    LET admin_id == verify_token(credentials)
    IN  IF admin_id = None THEN Result(401, "invalid token", None, None)
        ELSE IF target_admin_id \notin DOMAIN admins
        THEN Result(404, "not found", None, None)
        ELSE Result(200, "", None, Some(target_admin_id))

\* the route handler delete_admin over AdminService.delete_admin; `write`
\* carries the id of the row the DELETE statement removes
router_delete_admin_result(target_admin_id, credentials) ==
    LET admin_id == verify_token(credentials)
    IN  IF admin_id = None THEN Result(401, "invalid token", None, None)
        ELSE IF target_admin_id = admin_id[1]
        THEN Result(400, "own account", None, None)
        ELSE IF target_admin_id \notin DOMAIN admins
        THEN Result(404, "not found", None, None)
        ELSE Result(200, "", None, Some(target_admin_id))

\* DELETE /admin/{target_admin_id}
router_delete_admin(target_admin_id, credentials) ==
    /\ LET r == router_delete_admin_result(target_admin_id, credentials)
       IN  /\ last' = Outcome("DELETE /admin/", target_admin_id, r)
           /\ IF r.write # None
              THEN /\ Commit
                   /\ admins' = [a \in DOMAIN admins \ {r.write[1]} |-> admins[a]]
              ELSE UNCHANGED <<admins, now>>
    /\ UNCHANGED <<projects, schemes, admin_seq, inflight>>

\* EmailStr: the texts pydantic accepts as an email address
EmailStr_valid(text) == text \in {"e1", "e2"}

\* update_admin as the route calls it, update_admin(target_admin_id,
\* request.email, request.password): the service binds the arguments by
\* position to (admin_id, name, email).  The service commits its UPDATE and
\* then builds AdminData, whose email is an EmailStr: the ValidationError of a
\* stored email that is no address is a ValueError, answered 400 after the
\* commit.
AdminService_update_admin_call(args, salt) ==
    LET r == update_admin_result(args[1], args[2], args[3], None, salt)
        stored == IF r.write # None THEN r.write[1].email
                  ELSE IF r.data # None THEN r.data[1].email
                  ELSE "e1"
    IN  IF r.status = 200 /\ ~EmailStr_valid(stored)
        THEN Result(400, "ValidationError", None, r.write)
        ELSE r

\* the route update_admin
router_update_admin_result(target_admin_id, request, credentials, salt) ==
    IF verify_token(credentials) = None THEN Result(401, "invalid token", None, None)
    ELSE AdminService_update_admin_call(
             <<target_admin_id, request.email, request.password>>, salt)

\* PUT /admin/{target_admin_id}
router_update_admin(target_admin_id, request, credentials, salt) ==
    /\ LET r == router_update_admin_result(target_admin_id, request, credentials, salt)
       IN  /\ last' = Outcome("PUT /admin/", target_admin_id, r)
           /\ IF r.write # None
              THEN /\ Commit
                   /\ admins' = [admins EXCEPT ![target_admin_id] = r.write[1]]
              ELSE UNCHANGED <<admins, now>>
    /\ UNCHANGED <<projects, schemes, admin_seq, inflight>>

---------------------------------------------------------------------------
(* read operations *)

Min(a, b) == IF a < b THEN a ELSE b

\* the sequences that hold each element of S once
Orderings(S) ==
    {f \in [1..Cardinality(S) -> S] :
        \A i, j \in 1..Cardinality(S) : i # j => f[i] # f[j]}

(* ORDER BY key: the orders in which one execution of a query may return   *)
(* the rows `ids`.  Rows with equal keys come in an order the database     *)
(* chooses, anew for every query.                                          *)
OrderBy(ids, key) ==
    {f \in Orderings(ids) : \A i, j \in DOMAIN f : i < j => key[f[i]] <= key[f[j]]}

\* LIMIT %s OFFSET %s
LimitOffset(rows, limit, offset) ==
    IF offset >= Len(rows) THEN << >>
    ELSE SubSeq(rows, offset + 1, Min(offset + limit, Len(rows)))

\* `offset = (page - 1) * limit` of list_projects and get_schemes_by_project
page_offset(page, limit) == (page - 1) * limit

\* `total_pages = (total + limit - 1) // limit` with the floor of the division
total_pages_floor(total, limit) == total \div limit

\* `total_pages = (total + limit - 1) // limit` of the two list routes
total_pages(total, limit) == (total + limit - 1) \div limit

(* The pages a client has fetched one after the other from page 1 on, with *)
(* the same filter and limit and no other request in between.              *)
Scan(op, id, filter, page, limit, items) ==
    IF page = 1 THEN <<items>>
    ELSE IF /\ last.op = op
            /\ last.id = id
            /\ last.status = 200
            /\ last.data[1].filter = filter
            /\ last.data[1].limit = limit
            /\ last.data[1].page = page - 1
            /\ last.data[1].scan # << >>
         THEN Append(last.data[1].scan, items)
         ELSE << >>

\* ListProjectResponse and InvestmentSchemeListResponse as the routes fill them
ListResponse(op, id, filter, page, limit, total, items) ==
    [page |-> page,
     limit |-> limit,
     total_pages |-> total_pages(total, limit),
     is_previous |-> page > 1,
     is_next |-> page < total_pages(total, limit),
     total |-> total,
     items |-> items,
     filter |-> filter,
     scan |-> Scan(op, id, filter, page, limit, items)]

\* ORDER BY created_at DESC
newest_first == [p \in DOMAIN projects |-> 0 - projects[p].created_at]

\* list_projects reading inactive projects too
list_projects_rows_any(property_type, status_filter) ==
    {p \in DOMAIN projects :
        /\ Truthy(property_type) => projects[p].property_type = property_type[1]
        /\ Truthy(status_filter) => projects[p].status = status_filter[1]}

\* the WHERE clause of ProjectService.list_projects
list_projects_rows(property_type, status_filter) ==
    {p \in DOMAIN projects :
        /\ projects[p].is_active
        /\ Truthy(property_type) => projects[p].property_type = property_type[1]
        /\ Truthy(status_filter) => projects[p].status = status_filter[1]}

\* GET /projects/
list_projects(page, limit, property_type, status_filter) ==
    /\ \E order \in OrderBy(list_projects_rows(property_type, status_filter), newest_first) :
          last' = Outcome("list_projects", 0,
                     Result(200, "",
                        Some(ListResponse("list_projects", 0, <<property_type, status_filter>>,
                                page, limit,
                                Cardinality(list_projects_rows(property_type, status_filter)),
                                LimitOffset(order, limit, page_offset(page, limit)))),
                        None))
    /\ UNCHANGED <<projects, schemes, admins, admin_seq, inflight, now>>

\* ProjectService.get_project_by_id on a given projects table, under the
\* status mapping of the route get_project
get_project_by_id_in(table, project_id) ==
    IF project_id \in DOMAIN table /\ table[project_id].is_active
    THEN Result(200, "", Some(row_to_project_data(table[project_id])), None)
    ELSE Result(404, "not found", None, None)

get_project_by_id_result(project_id) == get_project_by_id_in(projects, project_id)

\* GET /projects/{project_id}
get_project(project_id) ==
    /\ last' = Outcome("get_project", project_id, get_project_by_id_result(project_id))
    /\ UNCHANGED <<projects, schemes, admins, admin_seq, inflight, now>>

\* the WHERE clause of ProjectService.get_projects_by_property_type
get_projects_by_property_type_rows(property_type) ==
    {p \in DOMAIN projects :
        projects[p].property_type = property_type /\ projects[p].is_active}

\* GET /projects/property-type/{property_type}
get_projects_by_property_type(property_type, limit, offset) ==
    /\ IF property_type \notin PropertyType
       THEN last' = Outcome("get_projects_by_property_type", 0,
                            Result(400, "property type", None, None))
       ELSE \E order \in OrderBy(get_projects_by_property_type_rows(property_type),
                                 newest_first) :
               last' = Outcome("get_projects_by_property_type", 0,
                          Result(200, "", Some(LimitOffset(order, limit, offset)), None))
    /\ UNCHANGED <<projects, schemes, admins, admin_seq, inflight, now>>

\* the WHERE clause of ProjectService.get_available_projects
get_available_projects_rows ==
    {p \in DOMAIN projects : projects[p].status = "available" /\ projects[p].is_active}

\* GET /projects/status/available
get_available_projects(limit, offset) ==
    /\ \E order \in OrderBy(get_available_projects_rows, newest_first) :
          last' = Outcome("get_available_projects", 0,
                     Result(200, "", Some(LimitOffset(order, limit, offset)), None))
    /\ UNCHANGED <<projects, schemes, admins, admin_seq, inflight, now>>

\* the characters of the texts and search terms explored
Chars(text) ==
    CASE text = "t1" -> <<"t", "1">>
      [] text = "t2" -> <<"t", "2">>
      [] text = "T2" -> <<"T", "2">>
      [] text = "zz" -> <<"z", "z">>
      [] text = " z" -> <<" ", "z">>
      [] text = "t_" -> <<"t", "_">>
      [] OTHER -> << >>

\* the search terms tried: a title, a title in another case, a text no project
\* holds, one character behind a blank, and a term with a LIKE wildcard
SearchTerms == {"t1", "T2", "zz", " z", "t_"}

\* str.strip()
RECURSIVE lstrip(_)
lstrip(chars) ==
    IF chars # << >> /\ Head(chars) = " " THEN lstrip(Tail(chars)) ELSE chars

RECURSIVE rstrip(_)
rstrip(chars) ==
    IF chars # << >> /\ chars[Len(chars)] = " "
    THEN rstrip(SubSeq(chars, 1, Len(chars) - 1))
    ELSE chars

strip(chars) == rstrip(lstrip(chars))

\* len(search_term.strip())
term_length(search_term) == Len(strip(Chars(search_term)))

\* the case folding of ILIKE
lower(c) == IF c = "T" THEN "t" ELSE c

\* text LIKE pattern, letters compared without case: % stands for any
\* characters, _ for any one character
RECURSIVE ilike(_, _)
ilike(text, pattern) ==
    IF pattern = << >> THEN text = << >>
    ELSE IF Head(pattern) = "%"
    THEN ilike(text, Tail(pattern)) \/ (text # << >> /\ ilike(Tail(text), pattern))
    ELSE /\ text # << >>
         /\ Head(pattern) = "_" \/ lower(Head(pattern)) = lower(Head(text))
         /\ ilike(Tail(text), Tail(pattern))

\* search_pattern = f"%{search_term}%"
search_pattern(search_term) == <<"%">> \o search_term \o <<"%">>

\* the WHERE clause of ProjectService.search_projects, search_term the
\* characters the route passes; title stands for the four text columns
search_projects_rows(search_term) ==
    {p \in DOMAIN projects :
        /\ ilike(Chars(projects[p].title), search_pattern(search_term))
        /\ projects[p].is_active}

\* the answers the route search_projects may give, one for each order in
\* which the query may return rows of equal created_at
search_projects_results(search_term, limit, offset) ==
    IF term_length(search_term) < 2
    THEN {Result(400, "search term", None, None)}
    ELSE {Result(200, "", Some(LimitOffset(order, limit, offset)), None) :
             order \in OrderBy(search_projects_rows(strip(Chars(search_term))),
                               newest_first)}

\* GET /projects/search/{search_term}
search_projects(search_term, limit, offset) ==
    /\ \E r \in search_projects_results(search_term, limit, offset) :
          last' = Outcome("search_projects", 0, r)
    /\ UNCHANGED <<projects, schemes, admins, admin_seq, inflight, now>>

\* ORDER BY title ASC
by_title == [p \in DOMAIN projects |-> IF projects[p].title = "t1" THEN 1 ELSE 2]

\* the WHERE clause of ProjectService.get_project_options
get_project_options_rows == {p \in DOMAIN projects : projects[p].is_active}

\* GET /projects/options
list_project_options ==
    /\ \E order \in OrderBy(get_project_options_rows, by_title) :
          last' = Outcome("list_project_options", 0, Result(200, "", Some(order), None))
    /\ UNCHANGED <<projects, schemes, admins, admin_seq, inflight, now>>

\* ORDER BY scheme_type, area_sqft
by_type_and_area ==
    [s \in DOMAIN schemes |->
        (IF schemes[s].scheme_type = "installment" THEN 0 ELSE 1) * (MaxAmount + 2)
           + schemes[s].area_sqft]

\* the WHERE clause of InvestmentSchemeService.get_schemes_by_project
get_schemes_by_project_rows(project_id, scheme_type, is_active) ==
    {s \in DOMAIN schemes :
        /\ schemes[s].project_id = project_id
        /\ Truthy(scheme_type) => schemes[s].scheme_type = scheme_type[1]
        /\ is_active # None => schemes[s].is_active = is_active[1]}

\* GET /investment-schemes/project/{project_id}
get_schemes_by_project(project_id, scheme_type, is_active, page, limit) ==
    /\ \E order \in OrderBy(get_schemes_by_project_rows(project_id, scheme_type, is_active),
                            by_type_and_area) :
          last' = Outcome("get_schemes_by_project", project_id,
                     Result(200, "",
                        Some(ListResponse("get_schemes_by_project", project_id,
                                <<scheme_type, is_active>>, page, limit,
                                Cardinality(get_schemes_by_project_rows(project_id,
                                                                        scheme_type, is_active)),
                                LimitOffset(order, limit, page_offset(page, limit)))),
                        None))
    /\ UNCHANGED <<projects, schemes, admins, admin_seq, inflight, now>>

\* the required fields of InvestmentSchemeListResponse
InvestmentSchemeListResponse_fields ==
    {"message", "page", "limit", "total_pages", "is_previous", "is_next",
     "total_schemes", "schemes"}

\* InvestmentSchemeListResponse(**given): pydantic raises ValidationError when
\* a required field is not given, and ignores the fields it does not declare
InvestmentSchemeListResponse_valid(given) ==
    InvestmentSchemeListResponse_fields \subseteq given

\* ORDER BY created_at DESC on investment_schemes: every INSERT commits at a
\* later time than the one before it, so a later scheme has the greater id
newest_scheme_first == [s \in DOMAIN schemes |-> 0 - s]

\* the WHERE clause of InvestmentSchemeService.get_all_schemes
get_all_schemes_rows(project_id, scheme_type, is_active) ==
    {s \in DOMAIN schemes :
        /\ project_id # None => schemes[s].project_id = project_id[1]
        /\ Truthy(scheme_type) => schemes[s].scheme_type = scheme_type[1]
        /\ IF is_active = None THEN schemes[s].is_active
           ELSE schemes[s].is_active = is_active[1]}

\* the answers of the route get_all_investment_schemes, which fills the
\* response with success, message and data
get_all_investment_schemes_results(project_id, scheme_type, is_active, limit, offset) ==
    {IF InvestmentSchemeListResponse_valid({"success", "message", "data"})
     THEN Result(200, "", Some(LimitOffset(order, limit, offset)), None)
     ELSE Result(500, "ValidationError", None, None) :
        order \in OrderBy(get_all_schemes_rows(project_id, scheme_type, is_active),
                          newest_scheme_first)}

\* GET /investment-schemes/
get_all_investment_schemes(project_id, scheme_type, is_active, limit, offset) ==
    /\ \E r \in get_all_investment_schemes_results(project_id, scheme_type, is_active,
                                                   limit, offset) :
          last' = Outcome("get_all_investment_schemes", 0, r)
    /\ UNCHANGED <<projects, schemes, admins, admin_seq, inflight, now>>

---------------------------------------------------------------------------
(* requests explored *)

Units == 0..MaxUnits
Days == 1..MaxDay
Amounts == 1..MaxAmount

CreateProjectRequests ==
    {r \in [title : {"t1"},
            status : {"available"},
            property_type : {"commercial", "plot"},
            has_rental_income : BOOLEAN,
            pricing_details : {None},
            amenities : {None},
            total_units : Units,
            available_units : Units,
            sold_units : Units,
            reserved_units : Units] : CreateProjectRequest_validate(r)}

NoProjectFields ==
    [title |-> None, status |-> None, property_type |-> None,
     has_rental_income |-> None, pricing_details |-> None, amenities |-> None,
     total_units |-> None, available_units |-> None, sold_units |-> None,
     reserved_units |-> None, is_active |-> None]

\* updates of the unit inventory alone
UnitUpdateRequests ==
    {r \in [title : {None},
            status : {None},
            property_type : {None},
            has_rental_income : {None},
            pricing_details : {None},
            amenities : {None},
            total_units : Opt(Units),
            available_units : Opt(Units),
            sold_units : Opt(Units),
            reserved_units : Opt(Units),
            is_active : {None}] : UpdateProjectRequest_validate(r)}

\* updates of the other columns alone
FieldUpdateRequests ==
    [title : Opt({"t2"}),
     status : {None},
     property_type : Opt({"commercial", "plot"}),
     has_rental_income : Opt(BOOLEAN),
     pricing_details : {None},
     amenities : {None},
     total_units : {None},
     available_units : {None},
     sold_units : {None},
     reserved_units : {None},
     is_active : Opt(BOOLEAN)]

UpdateProjectRequests == UnitUpdateRequests \cup FieldUpdateRequests

\* updates of one or two of the counts total, available and sold
RaceUpdateProjectRequests ==
    {r \in UnitUpdateRequests :
        /\ r.reserved_units = None
        /\ Cardinality({f \in {"total_units", "available_units", "sold_units"} :
                           r[f] # None}) \in {1, 2}}

\* the few project requests of the specifications that exercise other tables
FewCreateProjectRequests ==
    {r \in CreateProjectRequests :
        /\ r.property_type = "commercial"
        /\ r.total_units = 1 /\ r.available_units = 1}

FewUpdateProjectRequests ==
    {NoProjectFields,
     [NoProjectFields EXCEPT !.has_rental_income = Some(TRUE)],
     [NoProjectFields EXCEPT !.has_rental_income = Some(FALSE)],
     [NoProjectFields EXCEPT !.is_active = Some(FALSE)],
     [NoProjectFields EXCEPT !.is_active = Some(TRUE)],
     [NoProjectFields EXCEPT !.available_units = Some(0)],
     [NoProjectFields EXCEPT !.property_type = Some("plot"),
                             !.has_rental_income = Some(TRUE)]}

CreateSchemeRequests ==
    {r \in [project_id : ProjectIds,
            scheme_type : SchemeType,
            area_sqft : {1},
            booking_advance : {None},
            balance_payment_days : Opt(Amounts),
            total_installments : Opt(Amounts),
            monthly_installment_amount : Opt(Amounts),
            rental_start_month : Opt(Amounts),
            start_date : Days,
            end_date : Opt(Days),
            is_active : {TRUE}] : CreateInvestmentSchemeRequest_validate(r)}

NoSchemeFields ==
    [area_sqft |-> None, booking_advance |-> None, balance_payment_days |-> None,
     total_installments |-> None, monthly_installment_amount |-> None,
     rental_start_month |-> None, start_date |-> None, end_date |-> None,
     is_active |-> None]

SchemeFieldCount(r) ==
    Cardinality({f \in DOMAIN r : r[f] # None})

UpdateSchemeRequests ==
    {r \in [area_sqft : {None},
            booking_advance : {None},
            balance_payment_days : Opt(Amounts),
            total_installments : Opt(Amounts),
            monthly_installment_amount : Opt(Amounts),
            rental_start_month : Opt(Amounts),
            start_date : Opt(Days),
            end_date : Opt(Days),
            is_active : {None}] :
        /\ UpdateInvestmentSchemeRequest_validate(r)
        /\ SchemeFieldCount(r) <= MaxSupplied}

FewCreateSchemeRequests ==
    {r \in CreateSchemeRequests :
        /\ r.start_date = 1 /\ r.end_date = None
        /\ r.rental_start_month = None
        /\ r.scheme_type = "installment"}

FewUpdateSchemeRequests ==
    {NoSchemeFields,
     [NoSchemeFields EXCEPT !.area_sqft = Some(2)],
     [NoSchemeFields EXCEPT !.booking_advance = Some(0)],
     [NoSchemeFields EXCEPT !.rental_start_month = Some(1)],
     [NoSchemeFields EXCEPT !.end_date = Some(1)],
     [NoSchemeFields EXCEPT !.is_active = Some(FALSE)]}

\* projects that differ in the columns the public reads filter on
ReadCreateProjectRequests ==
    {r \in [title : {"t1", "t2"},
            status : {"available", "sold_out"},
            property_type : {"commercial", "plot"},
            has_rental_income : {FALSE},
            pricing_details : {None},
            amenities : {None},
            total_units : {1},
            available_units : {1},
            sold_units : {0},
            reserved_units : {0}] : CreateProjectRequest_validate(r)}

ReadUpdateProjectRequests ==
    {[NoProjectFields EXCEPT !.is_active = Some(FALSE)],
     [NoProjectFields EXCEPT !.is_active = Some(TRUE)]}

PageUpdateSchemeRequests ==
    {[NoSchemeFields EXCEPT !.area_sqft = Some(2)],
     [NoSchemeFields EXCEPT !.is_active = Some(FALSE)]}

\* projects created and updated with each kind of JSON value, the empty ones
\* included
JsonCreateProjectRequests ==
    {r \in [title : {"t1"},
            status : {"available"},
            property_type : {"commercial"},
            has_rental_income : {FALSE},
            pricing_details : Opt(JsonObjects),
            amenities : Opt(JsonLists),
            total_units : {1},
            available_units : {1},
            sold_units : {0},
            reserved_units : {0}] : CreateProjectRequest_validate(r)}

JsonUpdateProjectRequests ==
    {[NoProjectFields EXCEPT !.pricing_details = pd, !.amenities = am] :
        pd \in Opt(JsonObjects), am \in Opt(JsonLists)}

Limits == 1..MaxLimit
Pages == 1..MaxPage
Offsets == 0..1

Names == {"n1", "n2"}
Emails == {"e1", "e2"}
Passwords == {"pw1"}
\* the passwords tried at login: the one in use and a wrong one
LoginPasswords == Passwords \cup {"pw2"}

CreateAdminRequests == [name : {"n1"}, email : Emails, password : Passwords]

\* updates of the email alone, of the password alone, of both and of nothing
UpdateAdminRequests == [name : {None}, email : Opt(Emails), password : Opt({"pw2"})]

---------------------------------------------------------------------------

Init ==
    /\ projects = << >>
    /\ schemes = << >>
    /\ admins = << >>
    /\ admin_seq = 0
    /\ inflight = {}
    /\ now = 0
    /\ last = Outcome("none", 0, Result(0, "", None, None))

\* every project request, on a catalogue of MaxFocusRows projects
NextProject ==
    \/ \E req \in CreateProjectRequests :
          Cardinality(DOMAIN projects) < MaxFocusRows /\ create_project(req)
    \/ \E id \in ProjectIds, req \in UpdateProjectRequests : update_project(id, req)

SpecProject == Init /\ [][NextProject]_vars

\* update_project calls that overlap, on a catalogue of MaxFocusRows projects
NextProjectRace ==
    \/ \E req \in CreateProjectRequests :
          /\ Cardinality(DOMAIN projects) < MaxFocusRows
          /\ req.property_type = "commercial" /\ ~req.has_rental_income
          /\ create_project(req)
    \/ \E id \in ProjectIds, req \in RaceUpdateProjectRequests :
          update_project_select(id, req)
    \/ \E call \in inflight : update_project_update(call)

SpecProjectRace == Init /\ [][NextProjectRace]_vars

\* every scheme request, on MaxFocusRows schemes of a project whose rental
\* income and activity change
NextScheme ==
    \/ \E req \in FewCreateProjectRequests :
          Cardinality(DOMAIN projects) < MaxFocusRows /\ create_project(req)
    \/ \E id \in ProjectIds, req \in FewUpdateProjectRequests : update_project(id, req)
    \/ \E req \in CreateSchemeRequests :
          Cardinality(DOMAIN schemes) < MaxFocusRows /\ create_scheme(req)
    \/ \E id \in SchemeIds, req \in UpdateSchemeRequests : update_scheme(id, req)

SpecScheme == Init /\ [][NextScheme]_vars

\* all write operations of the three services
Next ==
    \/ \E req \in FewCreateProjectRequests : create_project(req)
    \/ \E id \in ProjectIds, req \in FewUpdateProjectRequests : update_project(id, req)
    \/ \E req \in FewCreateSchemeRequests : create_scheme(req)
    \/ \E id \in SchemeIds, req \in FewUpdateSchemeRequests : update_scheme(id, req)
    \/ \E name \in {"n1"}, email \in Emails, password \in Passwords, salt \in {"s1"} :
          AdminService_create_admin(name, email, password, salt)
    \/ \E id \in AdminIds, name \in Opt({"n2"}), email \in Opt(Emails),
          password \in {None}, salt \in {"s1"} :
          AdminService_update_admin(id, name, email, password, salt)

Spec == Init /\ [][Next]_vars

\* the admin routes, and calls of AdminService that overlap
NextAdmin ==
    \/ \E request \in CreateAdminRequests, credentials \in Credentials, salt \in {"s1"} :
          router_create_admin(request, credentials, salt)
    \/ \E name \in {"n1"}, email \in Emails, password \in Passwords, salt \in {"s1"} :
          AdminService_create_admin_select(name, email, password, salt)
    \/ \E call \in inflight : AdminService_create_admin_insert(call)
    \/ \E id \in AdminIds, email \in Emails, salt \in {"s1"} :
          AdminService_update_admin_select(id, None, Some(email), None, salt)
    \/ \E call \in inflight : AdminService_update_admin_update(call)
    \/ \E email \in Emails, password \in LoginPasswords : login(email, password)
    \/ \E id \in AdminIds, credentials \in Credentials : router_delete_admin(id, credentials)
    \/ \E request \in JsonCreateProjectRequests, credentials \in Credentials :
          request.pricing_details = None /\ request.amenities = None
             /\ router_create_project(request, credentials)

SpecAdmin == Init /\ [][NextAdmin]_vars

\* the route update_admin, on admins the service has stored, and the logins
\* that follow
NextAdminUpdate ==
    \/ \E email \in Emails, password \in Passwords, salt \in Salts :
          AdminService_create_admin("n1", email, password, salt)
    \/ \E id \in AdminIds, request \in UpdateAdminRequests, credentials \in Credentials,
          salt \in Salts :
          router_update_admin(id, request, credentials, salt)
    \/ \E email \in Emails \cup {"pw2"}, password \in LoginPasswords : login(email, password)

SpecAdminUpdate == Init /\ [][NextAdminUpdate]_vars

\* POST /admin/ requests that overlap, from an empty admin table, and logins
NextAdminFirst ==
    \/ \E request \in CreateAdminRequests, credentials \in Credentials :
          router_create_admin_count(request, credentials)
    \/ \E call \in inflight, salt \in {"s1"} : router_create_admin_call(call, salt)
    \/ \E email \in Emails, password \in LoginPasswords : login(email, password)

SpecAdminFirst == Init /\ [][NextAdminFirst]_vars

\* the public project reads, on projects that are created, deactivated and
\* reactivated
NextRead ==
    \/ \E req \in ReadCreateProjectRequests : create_project(req)
    \/ \E id \in ProjectIds, req \in ReadUpdateProjectRequests : update_project(id, req)
    \/ \E page \in Pages, limit \in Limits, property_type \in {None, Some("plot")},
          status_filter \in {None, Some("available")} :
          list_projects(page, limit, property_type, status_filter)
    \/ \E id \in ProjectIds : get_project(id)
    \/ \E property_type \in {"commercial", "plot", "villa"}, limit \in Limits,
          offset \in Offsets :
          get_projects_by_property_type(property_type, limit, offset)
    \/ \E limit \in Limits, offset \in Offsets : get_available_projects(limit, offset)
    \/ \E search_term \in SearchTerms, limit \in Limits, offset \in Offsets :
          search_projects(search_term, limit, offset)
    \/ list_project_options

SpecRead == Init /\ [][NextRead]_vars

\* the two paginated list routes, on projects and schemes that are created,
\* deactivated and resized
NextPage ==
    \/ \E req \in FewCreateProjectRequests : create_project(req)
    \/ \E id \in ProjectIds, req \in ReadUpdateProjectRequests : update_project(id, req)
    \/ \E req \in FewCreateSchemeRequests : create_scheme(req)
    \/ \E id \in SchemeIds, req \in PageUpdateSchemeRequests : update_scheme(id, req)
    \/ \E page \in Pages, limit \in Limits : list_projects(page, limit, None, None)
    \/ \E id \in ProjectIds, is_active \in {None, Some(TRUE)}, page \in Pages,
          limit \in Limits :
          get_schemes_by_project(id, None, is_active, page, limit)
    \/ \E project_id \in Opt(ProjectIds), is_active \in Opt(BOOLEAN), limit \in Limits :
          get_all_investment_schemes(project_id, None, is_active, limit, 0)

SpecPage == Init /\ [][NextPage]_vars

\* projects written with JSON values and read back by id
NextJson ==
    \/ \E req \in JsonCreateProjectRequests : create_project(req)
    \/ \E id \in ProjectIds, req \in JsonUpdateProjectRequests : update_project(id, req)
    \/ \E id \in ProjectIds : get_project(id)

SpecJson == Init /\ [][NextJson]_vars

---------------------------------------------------------------------------
(* Properties *)

\* C1: every stored project has total_units = available_units + sold_units +
\* reserved_units, and update_project, run in any reachable state on a request
\* whose effective unit counts (the request's where supplied, the stored ones
\* otherwise) break that equality, answers 400 and writes no row.
C1_UnitSumKept ==
    /\ \A p \in DOMAIN projects :
          projects[p].total_units =
             projects[p].available_units + projects[p].sold_units
               + projects[p].reserved_units
    /\ \A p \in DOMAIN projects, req \in UpdateProjectRequests :
          LET cur == projects[p]
              t == IF req.total_units = None THEN cur.total_units ELSE req.total_units[1]
              a == IF req.available_units = None THEN cur.available_units
                   ELSE req.available_units[1]
              d == IF req.sold_units = None THEN cur.sold_units ELSE req.sold_units[1]
              v == IF req.reserved_units = None THEN cur.reserved_units
                   ELSE req.reserved_units[1]
              some == \E f \in {"total_units", "available_units", "sold_units",
                                "reserved_units"} : req[f] # None
              r == update_project_result(p, req)
          IN  (some /\ t # a + d + v) => (r.status = 400 /\ r.write = None)

\* an update of the unit counts has just been rejected
C1_Witness ==
    /\ last.op = "update_project"
    /\ last.status = 400
    /\ last.detail = "units"
    /\ ~last.wrote

\* C2: no stored project has property_type plot or land together with
\* has_rental_income = true.
C2_NoRentalIncomeOnPlotOrLand ==
    \A p \in DOMAIN projects :
       projects[p].property_type \in {"plot", "land"} => ~projects[p].has_rental_income

\* C3: every stored single_payment scheme has no total_installments, no
\* monthly_installment_amount, and a balance_payment_days greater than 0.
C3_SinglePaymentFields ==
    \A s \in DOMAIN schemes :
       schemes[s].scheme_type = "single_payment" =>
          /\ schemes[s].total_installments = None
          /\ schemes[s].monthly_installment_amount = None
          /\ schemes[s].balance_payment_days # None
          /\ schemes[s].balance_payment_days[1] > 0

\* C4: every stored installment scheme has total_installments > 0 and
\* monthly_installment_amount > 0 and no balance_payment_days.
C4_InstallmentFields ==
    \A s \in DOMAIN schemes :
       schemes[s].scheme_type = "installment" =>
          /\ schemes[s].total_installments # None
          /\ schemes[s].total_installments[1] > 0
          /\ schemes[s].monthly_installment_amount # None
          /\ schemes[s].monthly_installment_amount[1] > 0
          /\ schemes[s].balance_payment_days = None

\* C5: create_scheme and update_scheme, run in any reachable state on a request
\* with a rental_start_month, answer 400 and write no row unless the owning
\* project is stored, active and has has_rental_income = true; the scheme type
\* makes no difference.
C5_RentalStartMonthNeedsRentalIncome ==
    LET rental(pid) ==
           /\ pid \in DOMAIN projects
           /\ projects[pid].is_active
           /\ projects[pid].has_rental_income
    IN  /\ \A req \in CreateSchemeRequests :
              (req.rental_start_month # None /\ ~rental(req.project_id)) =>
                 LET r == create_scheme_result(req)
                 IN  r.status = 400 /\ r.write = None
        /\ \A s \in DOMAIN schemes, req \in UpdateSchemeRequests :
              (req.rental_start_month # None /\ ~rental(schemes[s].project_id)) =>
                 LET r == update_scheme_result(s, req)
                 IN  r.status = 400 /\ r.write = None

\* a rental_start_month has just been refused to a scheme of an active project
\* without rental income
C5_Witness ==
    /\ last.op = "update_scheme"
    /\ last.status = 400
    /\ last.detail = "rental"
    /\ last.id \in DOMAIN schemes
    /\ ~projects[schemes[last.id].project_id].has_rental_income

C7_OmittedColumnsKept ==
    /\ \A p \in DOMAIN projects, req \in UpdateProjectRequests :
          LET r == update_project_result(p, req)
          IN  r.write # None =>
                 \A f \in DOMAIN req : req[f] = None => r.write[1][f] = projects[p][f]
    /\ \A s \in DOMAIN schemes, req \in UpdateSchemeRequests \cup FewUpdateSchemeRequests :
          LET r == update_scheme_result(s, req)
          IN  r.write # None =>
                 /\ \A f \in DOMAIN req : req[f] = None => r.write[1][f] = schemes[s][f]
                 /\ r.write[1].project_id = schemes[s].project_id
                 /\ r.write[1].scheme_type = schemes[s].scheme_type

\* a writing update changes no row but the addressed one
C7_OtherRowsKept ==
    /\ (last'.op = "update_project" /\ last'.wrote) =>
          /\ DOMAIN projects' = DOMAIN projects
          /\ \A p \in DOMAIN projects \ {last'.id} : projects'[p] = projects[p]
          /\ schemes' = schemes /\ admins' = admins
    /\ (last'.op = "update_scheme" /\ last'.wrote) =>
          /\ DOMAIN schemes' = DOMAIN schemes
          /\ \A s \in DOMAIN schemes \ {last'.id} : schemes'[s] = schemes[s]
          /\ projects' = projects /\ admins' = admins

\* C7: the row a successful update_project or update_scheme writes differs
\* from the stored row only in columns the request supplies and in updated_at,
\* and the step changes no other row of any table.
C7_PartialUpdateFrame == []C7_OmittedColumnsKept /\ [][C7_OtherRowsKept]_vars

\* update_scheme has just written one of two stored schemes
C7_Witness ==
    /\ last.op = "update_scheme"
    /\ last.status = 200
    /\ last.wrote
    /\ Cardinality(DOMAIN schemes) = 2
    /\ schemes[last.id].updated_at = now
    /\ \E s \in DOMAIN schemes : schemes[s].updated_at < now

\* C8: an update with no supplied field, run on any stored project, scheme or
\* admin, writes no row: the entity is as it was, updated_at included, however
\* often the request is repeated.
C8_EmptyUpdateWritesNothing ==
    /\ \A p \in DOMAIN projects : update_project_result(p, NoProjectFields).write = None
    /\ \A s \in DOMAIN schemes : update_scheme_result(s, NoSchemeFields).write = None
    /\ \A a \in DOMAIN admins, salt \in Salts :
          update_admin_result(a, None, None, None, salt).write = None

\* an empty update has just been answered for a scheme written earlier
C8_Witness ==
    /\ last.op = "update_scheme"
    /\ last.status = 200
    /\ ~last.wrote
    /\ last.id \in DOMAIN schemes
    /\ schemes[last.id].updated_at < now

\* C9 as claimed: an update with no supplied field answers 200 with the current
\* entity for every stored project and every stored scheme, whatever the state
\* of the other rows.
C9_EmptyUpdateNeverFails ==
    /\ \A p \in DOMAIN projects :
          LET r == update_project_result(p, NoProjectFields)
          IN  r.status = 200 /\ r.data = Some(row_to_project_data(projects[p]))
    /\ \A s \in DOMAIN schemes :
          LET r == update_scheme_result(s, NoSchemeFields)
          IN  r.status = 200 /\ r.data = Some(row_to_scheme_data(schemes[s]))

\* C9 as amended: an update with no supplied field answers 200 with the current
\* entity for every stored project and for every stored scheme whose project is
\* active; for a scheme whose project is not active it answers 400 and writes
\* nothing.
C9_EmptyUpdateReadsBack ==
    /\ \A p \in DOMAIN projects :
          LET r == update_project_result(p, NoProjectFields)
          IN  r.status = 200 /\ r.data = Some(row_to_project_data(projects[p])) /\ r.write = None
    /\ \A s \in DOMAIN schemes :
          LET r == update_scheme_result(s, NoSchemeFields)
          IN  IF projects[schemes[s].project_id].is_active
              THEN /\ r.status = 200
                   /\ r.data = Some(row_to_scheme_data(schemes[s]))
                   /\ r.write = None
              ELSE r.status = 400 /\ r.data = None /\ r.write = None

\* an empty update has just been refused to a scheme of a deactivated project
C9_Witness ==
    /\ last.op = "update_scheme"
    /\ last.status = 400
    /\ last.detail = "project"
    /\ last.id \in DOMAIN schemes
    /\ ~projects[schemes[last.id].project_id].is_active

\* C10: update_scheme, run in any reachable state on a request that supplies
\* only one of start_date and end_date and leaves the effective end_date on or
\* before the effective start_date, answers 400 and writes no row.
C10_EffectiveDateOrder ==
    \A s \in DOMAIN schemes, req \in UpdateSchemeRequests :
       LET cur == schemes[s]
           r == update_scheme_result(s, req)
       IN  /\ (req.end_date # None /\ req.start_date = None
                 /\ req.end_date[1] <= cur.start_date)
              => (r.status = 400 /\ r.write = None)
           /\ (req.start_date # None /\ req.end_date = None /\ cur.end_date # None
                 /\ cur.end_date[1] <= req.start_date[1])
              => (r.status = 400 /\ r.write = None)


\* C11: POST /admin/ without a token succeeds and stores the admin with the
\* requested name and email when no admin exists, and is answered 401 with no
\* row added once an admin exists.
C11_FirstAdminNeedsNoToken ==
    [][\A request \in CreateAdminRequests, salt \in Salts :
          router_create_admin(request, None, salt) =>
             IF DOMAIN admins = {}
             THEN /\ last'.status = 200
                  /\ \E a \in DOMAIN admins' :
                        /\ admins'[a].name = request.name
                        /\ admins'[a].email = request.email
             ELSE last'.status = 401 /\ admins' = admins]_vars

\* authenticate_admin issues a token for (email, password) exactly when a
\* stored admin has the email and its stored hash was made from the password;
\* otherwise login answers 401 with no token
C12_TokenIffCredentialsMatch ==
    \A email \in Emails, password \in LoginPasswords :
       LET r == authenticate_admin_result(email, password)
           matching == {a \in DOMAIN admins :
                           /\ admins[a].email = email
                           /\ admins[a].password[3] = password}
       IN  /\ r.write = None
           /\ IF matching # {}
              THEN /\ r.status = 200
                   /\ r.data # None
                   /\ r.data[1].token.admin_id \in matching
                   /\ verify_token(Some(r.data[1].token)) = Some(r.data[1].token.admin_id)
              ELSE r.status = 401 /\ r.data = None

\* a login step changes no table
C12_LoginReadsOnly ==
    last'.op = "login" =>
       (admins' = admins /\ projects' = projects /\ schemes' = schemes)

\* C12: authenticate_admin issues a token exactly when the email matches a
\* stored admin and the password verifies against that admin's stored hash; a
\* wrong password or an unknown email yields 401 and no token, and login never
\* changes stored state.
C12_Login == []C12_TokenIffCredentialsMatch /\ [][C12_LoginReadsOnly]_vars

\* a login has just been refused although every email tried belongs to an
\* admin: the password was wrong
C12_Witness ==
    /\ last.op = "login"
    /\ last.status = 401
    /\ last.data = None
    /\ \A email \in Emails : admin_with_email(email) # {}

\* C13: DELETE /admin/{id} with the caller's own id is answered 400 and the
\* admin table is unchanged; with any other existing id it removes exactly that
\* row; with a non-existent id it is answered 404 and removes nothing.
C13_Delete ==
    [][\A target \in AdminIds, credentials \in Credentials :
          (router_delete_admin(target, credentials) /\ verify_token(credentials) # None) =>
             LET caller == credentials[1].admin_id
             IN  IF target = caller
                 THEN last'.status = 400 /\ admins' = admins
                 ELSE IF target \in DOMAIN admins
                 THEN /\ last'.status = 200
                      /\ DOMAIN admins' = DOMAIN admins \ {target}
                      /\ \A a \in DOMAIN admins' : admins'[a] = admins[a]
                 ELSE last'.status = 404 /\ admins' = admins]_vars

\* one of two admins has just been deleted by the other
C13_Witness ==
    /\ last.op = "DELETE /admin/"
    /\ last.status = 200
    /\ last.wrote
    /\ admin_seq = 2
    /\ Cardinality(DOMAIN admins) = 1

\* C14: in every reachable state, under any interleaving of create_admin and
\* update_admin calls, no two admin rows have the same email.
C14_EmailUnique ==
    \A a, b \in DOMAIN admins : a # b => admins[a].email # admins[b].email

\* a call that passed its email test has just had its write refused by the
\* table, because an overlapping call took the email first
C14_Witness ==
    /\ last.op \in {"create_admin", "update_admin"}
    /\ last.status = 500
    /\ last.detail = "storage"
    /\ Cardinality(DOMAIN admins) >= 1

\* the projects a public project read has just returned
C15_Returned ==
    IF last.status # 200 THEN {}
    ELSE IF last.op = "list_projects"
    THEN {last.data[1].items[i] : i \in DOMAIN last.data[1].items}
    ELSE IF last.op = "get_project" THEN {last.id}
    ELSE IF last.op \in {"get_projects_by_property_type", "get_available_projects",
                         "search_projects", "list_project_options"}
    THEN {last.data[1][i] : i \in DOMAIN last.data[1]}
    ELSE {}

\* C15: every public project read returns only projects with is_active =
\* true, and get_project_by_id answers 404 for a deactivated project.
C15_PublicReadsActiveOnly ==
    /\ \A p \in C15_Returned : p \in DOMAIN projects /\ projects[p].is_active
    /\ \A p \in DOMAIN projects :
          ~projects[p].is_active => get_project_by_id_result(p).status = 404
    /\ (last.op = "get_project" /\ last.id \in DOMAIN projects
          /\ ~projects[last.id].is_active) => last.status = 404

\* a stored, deactivated project has just been asked for by id and not found,
\* while another project is active
C15_Witness ==
    /\ last.op = "get_project"
    /\ last.status = 404
    /\ last.id \in DOMAIN projects
    /\ ~projects[last.id].is_active
    /\ \E p \in DOMAIN projects : projects[p].is_active

\* the least k with k * limit >= total
C16_Ceil(total, limit) ==
    CHOOSE k \in 0..total : k * limit >= total /\ (k = 0 \/ (k - 1) * limit < total)

\* the rows that match the filter of the list response just given
C16_Matching ==
    IF last.op = "list_projects"
    THEN list_projects_rows(last.data[1].filter[1], last.data[1].filter[2])
    ELSE get_schemes_by_project_rows(last.id, last.data[1].filter[1], last.data[1].filter[2])

\* C16: for the two paginated list routes, total_pages = ceil(N / L),
\* is_previous = (p > 1), is_next = (p < total_pages) and the query skips
\* (p - 1) * L rows, for N matching rows, page size L and page p.
C16_PageArithmetic ==
    /\ \A N \in 0..MaxTotal, L \in 1..MaxLimit, p \in 1..MaxPage :
          /\ total_pages(N, L) = C16_Ceil(N, L)
          /\ page_offset(p, L) + L = p * L
    /\ (last.op \in {"list_projects", "get_schemes_by_project"} /\ last.status = 200) =>
          LET d == last.data[1]
              N == Cardinality(C16_Matching)
              skipped == (d.page - 1) * d.limit
          IN  /\ d.total = N
              /\ d.total_pages = C16_Ceil(N, d.limit)
              /\ d.is_previous = (d.page > 1)
              /\ d.is_next = (d.page < d.total_pages)
              /\ Len(d.items) = (IF skipped >= N THEN 0 ELSE Min(d.limit, N - skipped))

\* the second and last page of two schemes has just been read, and so has a
\* single page that is not full
C16_Witness ==
    /\ last.op = "get_schemes_by_project"
    /\ last.status = 200
    /\ last.data[1].page = 2
    /\ last.data[1].limit = 1
    /\ last.data[1].total = 2
    /\ last.data[1].total_pages = 2
    /\ last.data[1].is_previous
    /\ ~last.data[1].is_next
    /\ Len(last.data[1].items) = 1

RECURSIVE C17_Concat(_)
C17_Concat(pages) ==
    IF pages = << >> THEN << >> ELSE Head(pages) \o C17_Concat(Tail(pages))

\* C17: with the data fixed, the pages 1..total_pages of a list route, one
\* after the other, hold exactly the matching rows, each once, in the declared
\* order.
C17_PagesPartitionRows ==
    (/\ last.op \in {"list_projects", "get_schemes_by_project"}
     /\ last.status = 200
     /\ Len(last.data[1].scan) = last.data[1].page
     /\ last.data[1].page >= last.data[1].total_pages) =>
        IF last.op = "list_projects"
        THEN C17_Concat(last.data[1].scan) \in OrderBy(C16_Matching, newest_first)
        ELSE C17_Concat(last.data[1].scan) \in OrderBy(C16_Matching, by_type_and_area)

\* the project named is stored and active
C18_ProjectActive(project_id) ==
    project_id \in DOMAIN projects /\ projects[project_id].is_active

\* every stored scheme belongs to a stored project, and no create_scheme
\* request that names a missing or inactive project succeeds or writes
C18_OnlyForActiveProject ==
    /\ \A s \in DOMAIN schemes : schemes[s].project_id \in DOMAIN projects
    /\ \A req \in CreateSchemeRequests :
          ~C18_ProjectActive(req.project_id) =>
              /\ create_scheme_result(req).status # 200
              /\ create_scheme_result(req).write = None

\* a create_scheme step that writes adds one scheme, of a project that was
\* active before the step; one that does not write leaves the table as it was
C18_CreateStep ==
    last'.op = "create_scheme" =>
        IF last'.wrote
        THEN /\ last'.id \notin DOMAIN schemes
             /\ DOMAIN schemes' = DOMAIN schemes \cup {last'.id}
             /\ \A s \in DOMAIN schemes : schemes'[s] = schemes[s]
             /\ C18_ProjectActive(schemes'[last'.id].project_id)
        ELSE schemes' = schemes

\* C18: create_scheme inserts a row only if the project it names exists and
\* is active when the request is handled; otherwise it fails and the table is
\* unchanged, so every scheme's project existed and was active at creation.
C18_SchemeOfActiveProject == []C18_OnlyForActiveProject /\ [][C18_CreateStep]_vars

\* a scheme has just been refused because the only project is inactive
C18_Witness ==
    /\ last.op = "create_scheme"
    /\ last.status = 400
    /\ last.detail = "project"
    /\ DOMAIN projects = {1}
    /\ ~projects[1].is_active

\* C19: a request that names a missing or inactive project is answered 404:
\* create_scheme for such a project, and update_scheme on a scheme whose
\* project is inactive.
C19_InactiveProjectIs404 ==
    /\ \A req \in CreateSchemeRequests :
          ~C18_ProjectActive(req.project_id) => create_scheme_result(req).status = 404
    /\ \A s \in DOMAIN schemes, req \in UpdateSchemeRequests :
          ~C18_ProjectActive(schemes[s].project_id) =>
              update_scheme_result(s, req).status = 404

\* a project write that supplies JSON values is read back with those values
C20_WriteThenRead ==
    /\ \A req \in JsonCreateProjectRequests :
          (create_project(req) /\ last'.wrote) =>
              LET r == get_project_by_id_in(projects', last'.id)
              IN  /\ r.status = 200
                  /\ r.data[1].pricing_details = req.pricing_details
                  /\ r.data[1].amenities = req.amenities
    /\ \A id \in ProjectIds, req \in JsonUpdateProjectRequests :
          (update_project(id, req) /\ last'.wrote) =>
              LET r == get_project_by_id_in(projects', id)
              IN  /\ r.status = 200
                  /\ req.pricing_details # None =>
                         r.data[1].pricing_details = req.pricing_details
                  /\ req.amenities # None =>
                         r.data[1].amenities = req.amenities

\* C20: a JSON value given to create_project or update_project, the empty
\* list and the empty object included, is the value get_project_by_id returns
\* for the project afterwards.
C20_JsonRoundTrip == [][C20_WriteThenRead]_vars

\* text holds term as a run of consecutive characters, letters compared
\* without case
C21_Contains(text, term) ==
    \E k \in 0..Len(text) :
        /\ k + Len(term) <= Len(text)
        /\ \A i \in 1..Len(term) : lower(text[k + i]) = lower(term[i])

\* C21: GET /projects/search/{term} is answered 400 when the trimmed term has
\* fewer than 2 characters, and otherwise 200 with only active projects whose
\* text contains the trimmed term.
C21_SearchContains ==
    \A search_term \in SearchTerms, limit \in Limits, offset \in Offsets :
        \A r \in search_projects_results(search_term, limit, offset) :
            IF Len(strip(Chars(search_term))) < 2
            THEN r.status = 400 /\ r.data = None
            ELSE /\ r.status = 200
                 /\ \A i \in DOMAIN r.data[1] :
                       LET p == r.data[1][i]
                       IN  /\ projects[p].is_active
                           /\ C21_Contains(Chars(projects[p].title),
                                           strip(Chars(search_term)))

\* C22: GET /investment-schemes/ is answered successfully with exactly the
\* schemes that match the project_id filter, and that are active when
\* is_active is not supplied or have the supplied is_active value when it is.
C22_GeneralListing ==
    \A project_id \in Opt(ProjectIds), is_active \in Opt(BOOLEAN) :
        \A r \in get_all_investment_schemes_results(project_id, None, is_active,
                                                    MaxSchemes, 0) :
            /\ r.status = 200
            /\ r.data # None
            /\ {r.data[1][i] : i \in DOMAIN r.data[1]} =
                  {s \in DOMAIN schemes :
                      /\ project_id # None => schemes[s].project_id = project_id[1]
                      /\ schemes[s].is_active = (IF is_active = None THEN TRUE
                                                 ELSE is_active[1])}

\* the tokens login has issued to an admin that is no longer stored
C23_TokensOfDeleted ==
    {t \in Tokens : t.signed /\ t.admin_id <= admin_seq /\ t.admin_id \notin DOMAIN admins}

\* C23: a token issued to an admin authenticates requests on the admin,
\* project and scheme routes after the admin's row is deleted, until it
\* expires: validation looks at signature and expiry alone.
C23_DeletedAdminTokenValid ==
    /\ \A t \in {t \in Tokens : t.signed /\ t.admin_id <= admin_seq} :
          /\ verify_token(Some(t)) = (IF t.expired THEN None ELSE Some(t.admin_id))
          /\ verify_admin_token(Some(t)) = (IF t.expired THEN None ELSE Some(t.admin_id))
    /\ \A t \in C23_TokensOfDeleted :
          /\ \A target \in AdminIds :
                router_delete_admin_result(target, Some(t)).status = 401 <=> t.expired
          /\ \A request \in JsonCreateProjectRequests :
                router_create_project_result(request, Some(t)).status = 401 <=> t.expired

\* the last admin row has just been deleted: the caller's id is never the
\* target, so the caller's own row had been deleted before
C23_Witness ==
    /\ last.op = "DELETE /admin/"
    /\ last.status = 200
    /\ last.wrote
    /\ admin_seq = 2
    /\ DOMAIN admins = {}

\* the tokens that pass validation
C24_ValidCredentials ==
    {Some(t) : t \in {t \in Tokens : t.signed /\ ~t.expired /\ t.admin_id <= admin_seq}}

\* C24: PUT /admin/{id} with only a new email stores that email and keeps the
\* admin's name and password hash, so that login with the new email and the
\* unchanged password succeeds.
C24_EmailOnlyUpdate ==
    \A id \in DOMAIN admins, email \in Emails, credentials \in C24_ValidCredentials :
        admin_with_email(email) \ {id} = {} =>
            LET request == [name |-> None, email |-> Some(email), password |-> None]
                r == router_update_admin_result(id, request, credentials, "s1")
                row == IF r.write # None THEN r.write[1] ELSE admins[id]
            IN  /\ r.status = 200
                /\ row.email = email
                /\ row.name = admins[id].name
                /\ row.password = admins[id].password

\* C25: PUT /admin/{id} with a new password stores a hash that the new
\* password verifies against and the old one does not, keeps name and email,
\* and stores the plaintext password in no column.
C25_PasswordUpdate ==
    \A id \in DOMAIN admins, credentials \in C24_ValidCredentials :
        LET request == [name |-> None, email |-> None, password |-> Some("pw2")]
            r == router_update_admin_result(id, request, credentials, "s1")
            row == IF r.write # None THEN r.write[1] ELSE admins[id]
        IN  /\ r.status = 200
            /\ verify_password("pw2", row.password)
            /\ ~verify_password("pw1", row.password)
            /\ row.name = admins[id].name
            /\ row.email = admins[id].email
            /\ "pw2" \notin {row.name, row.email}

\* every call that has read and not yet written passed the unit-sum test on
\* the counts it read
C26_ValidatedOnRead ==
    \A call \in inflight :
        call.op = "update_project" => ~update_project_units_error(call.req, call.read)

\* the write of such a call succeeds whatever was committed since its read,
\* and sets just the columns the request supplies
C26_WriteStep ==
    \A call \in inflight :
        update_project_update(call) =>
            /\ last'.status = 200
            /\ \A f \in {"total_units", "available_units", "sold_units", "reserved_units"} :
                  projects'[call.id][f] =
                     (IF call.req[f] # None THEN call.req[f][1] ELSE projects[call.id][f])

\* C26: of two interleaved update_project requests on one project, each tests
\* the unit sum on the counts it read and then writes only the columns it
\* supplies; nothing protects the read against the other's commit, so the
\* committed row need not satisfy total = available + sold + reserved.
C26_StaleReadWrite == []C26_ValidatedOnRead /\ [][C26_WriteStep]_vars

\* two requests that each passed the unit-sum test have been committed, and
\* the stored counts do not add up
C26_Witness ==
    /\ last.op = "update_project"
    /\ last.status = 200
    /\ last.wrote
    /\ inflight = {}
    /\ \E p \in DOMAIN projects :
          projects[p].total_units #
             projects[p].available_units + projects[p].sold_units
                + projects[p].reserved_units

\* a request without a token inserts an admin row only into an empty table
C27_InsertStep ==
    \A call \in inflight :
        (/\ router_create_admin_call(call, "s1")
         /\ call.credentials = None
         /\ admins' # admins) => DOMAIN admins = {}

C28_RentalSchemeOnRentalProject ==
    \A s \in DOMAIN schemes :
        schemes[s].rental_start_month # None =>
            /\ schemes[s].project_id \in DOMAIN projects
            /\ projects[schemes[s].project_id].has_rental_income

\* C29: once an admin has been stored the admin table is never empty again,
\* whatever login, create, update and delete requests follow.
C29_AdminTableStaysNonEmpty ==
    admin_seq > 0 => DOMAIN admins # {}

\* the scheme columns that may hold null
C30_NullableColumns ==
    {"balance_payment_days", "total_installments", "monthly_installment_amount",
     "rental_start_month", "booking_advance", "end_date"}

\* the row any update_scheme request would write keeps project_id and
\* scheme_type and leaves no nullable column null that held a value
C30_NoColumnNulled ==
    \A s \in DOMAIN schemes, req \in UpdateSchemeRequests \cup FewUpdateSchemeRequests :
        LET w == update_scheme_result(s, req).write
        IN  w # None =>
               /\ w[1].project_id = schemes[s].project_id
               /\ w[1].scheme_type = schemes[s].scheme_type
               /\ \A f \in C30_NullableColumns :
                      schemes[s][f] # None => w[1][f] # None

\* a step leaves every stored scheme its project_id and scheme_type and, in
\* each nullable column that held a value, a value
C30_StoredStep ==
    \A s \in DOMAIN schemes :
        /\ s \in DOMAIN schemes'
        /\ schemes'[s].project_id = schemes[s].project_id
        /\ schemes'[s].scheme_type = schemes[s].scheme_type
        /\ \A f \in C30_NullableColumns :
               schemes[s][f] # None => schemes'[s][f] # None

\* C30: no update_scheme call changes a scheme's scheme_type or project_id,
\* and none turns a non-null balance_payment_days, total_installments,
\* monthly_installment_amount, rental_start_month, booking_advance or end_date
\* into null: a nullable column goes from null to a value or from one value
\* to another.
C30_SchemeColumnsMonotone == []C30_NoColumnNulled /\ [][C30_StoredStep]_vars

\* update_scheme has just written a scheme that holds values in two of the
\* nullable columns, end_date among them
C30_Witness ==
    /\ last.op = "update_scheme"
    /\ last.status = 200
    /\ last.wrote
    /\ schemes[last.id].updated_at = now
    /\ \E f \in C30_NullableColumns \ {"end_date"} : schemes[last.id][f] # None
    /\ schemes[last.id].end_date # None

=============================================================================
